---- MODULE Spec2Model ----
(***************************************************************************)
(* State-machine model of the chain crate of rust-blockchain:              *)
(* BlockChain (blocks, account store, mempool, receipts), the RPC          *)
(* submissions and the periodic transaction processor.                     *)
(*                                                                         *)
(* Conventions                                                             *)
(*   Option<T>      None is <<>>, Some(x) is <<x>>.                        *)
(*   Result<T>      a record with a field res: "Ok", the name of the       *)
(*                  error variant, or "panic" for a Rust panic.            *)
(*   Keccak-256     Hash(x) is the injective term <<"keccak", x>>; the     *)
(*                  trie roots are injective terms over the trie content.  *)
(*   bincode        the serialisation of a value is the value itself.      *)
(*   Vec index i    is index i + 1 of the TLA+ sequence.                   *)
(***************************************************************************)
EXTENDS Integers, Sequences, FiniteSets, TLC

VARIABLES
    accounts,     \* BlockChain.accounts: the trie, address -> AccountData
    blocks,       \* BlockChain.blocks: Vec<Block>
    mempool,      \* TransactionStorage.mempool: VecDeque<Transaction>
    receipts,     \* TransactionStorage.receipts: hash -> TransactionReceipt
    ticker,       \* the transaction_processor task: "running" or "dead"
    mempool_ids,  \* history: submission number of each mempool entry
    block_ids,    \* history: submission numbers of each block's transactions
    next_id,      \* history: number of accepted submissions
    committed,    \* history: the account store each block's tick started from
    nonce_ok,     \* history: successful update_nonce calls per address
    tick,         \* history: what the most recent tick did
    chain_guard,   \* the task holding the guard of Mutex<BlockChain>, if any
    storage_guard, \* the task holding the guard of Mutex<TransactionStorage>
    pc,            \* where each task stands in the code it runs
    local          \* the locals of the function each task runs

\* The guards and the positions of the tasks; they change only in the steps
\* of LockSpec, which follows the tasks from one lock operation to the next.
locks == <<chain_guard, storage_guard, pc, local>>

vars == <<accounts, blocks, mempool, receipts, ticker,
          mempool_ids, block_ids, next_id, committed, nonce_ok, tick,
          chain_guard, storage_guard, pc, local>>

(***************************************************************************)
(* Bounds of the model and constants of the program.                       *)
(***************************************************************************)
MaxSends == 3
MaxBlocks == 4
MaxNonce == 3

InitialBalance == 10000
Gas == 10
GasPrice == 10

None == <<>>
Some(x) == <<x>>

RangeOf(s) == {s[i] : i \in 1..Len(s)}
EmptyMap == [x \in {} |-> x]

(***************************************************************************)
(* utils::crypto                                                           *)
(***************************************************************************)
Hash(x) == <<"keccak", x>>
ZeroH256 == <<"zero">>

\* Account::random() and the address of a key pair: 20-byte values.
Account(i) == <<"acct", i>>
ZeroAddress == Account(0)
Keys == {1, 2}
public_key_address(k) == Account(k)

\* to_address over bincode::serialize(&(key, nonce)).
to_address(item) == <<"ctr", item[1], item[2]>>

(***************************************************************************)
(* types::account, types::transaction, types::block                        *)
(***************************************************************************)
AccountData_new(code_hash) ==
    [nonce |-> 0, balance |-> InitialBalance, code_hash |-> code_hash]

\* Transaction::hash: Keccak of the serialised transaction, the current
\* hash field included, stored in the hash field.
Transaction_hash(t) == [t EXCEPT !.hash = Some(Hash(t))]

Transaction_new(from, to, value, nonce, data) ==
    Transaction_hash([from |-> from, to |-> to, hash |-> None, nonce |-> nonce,
                      value |-> value, data |-> data,
                      gas |-> Gas, gas_price |-> GasPrice])

\* A variant of kind that takes every transaction with a recipient for a
\* transfer.
Transaction_kind_by_recipient(t) ==
    IF t.to # None
        THEN [res |-> "Ok", kind |-> "Regular", args |-> <<t.from, t.to[1], t.value>>]
    ELSE IF t.data # None
        THEN [res |-> "Ok", kind |-> "ContractDeployment",
              args |-> <<t.from, t.data[1]>>]
    ELSE [res |-> "InvalidTransaction", kind |-> "none", args |-> <<>>]

\* Transaction::kind: the variant of TransactionKind and its fields.
Transaction_kind(t) ==
    IF t.to # None /\ t.data = None
        THEN [res |-> "Ok", kind |-> "Regular", args |-> <<t.from, t.to[1], t.value>>]
    ELSE IF t.to = None /\ t.data # None
        THEN [res |-> "Ok", kind |-> "ContractDeployment",
              args |-> <<t.from, t.data[1]>>]
    ELSE IF t.to # None /\ t.data # None
        THEN [res |-> "Ok", kind |-> "ContractExecution",
              args |-> <<t.from, t.to[1], t.data[1]>>]
    ELSE [res |-> "InvalidTransaction", kind |-> "none", args |-> <<>>]

\* A variant of root_hash that commits to the list in its order.
Transaction_root_hash_ordered(txs) == <<"root", txs>>

\* Transaction::to_trie / root_hash: a trie keyed by transaction hash; a
\* later insert under the same key replaces the earlier one.
Transaction_root_hash(txs) ==
    <<"root", [h \in {t.hash[1] : t \in RangeOf(txs)} |->
                 txs[CHOOSE i \in 1..Len(txs) :
                        /\ txs[i].hash[1] = h
                        /\ \A j \in (i+1)..Len(txs) : txs[j].hash[1] # h]]>>

\* SignedTransaction: v is the recovery id, the signing key stands for
\* (r, s), signed is the message the signature was made over and
\* raw_transaction the message carried.
Transaction_sign(t, key) ==
    [v |-> 0, signer |-> key, signed |-> t, raw_transaction |-> t]

\* recover_public_key followed by public_key_address.
Transaction_recover_address(st) ==
    IF st.raw_transaction = st.signed
        THEN public_key_address(st.signer)
        ELSE <<"recovered", st.signer, st.raw_transaction>>

\* A variant of verify that does not compare the addresses.
Transaction_verify_any_address(st, address) ==
    IF st.v \notin 0..3
        THEN [res |-> "ConversionError", v |-> FALSE]
        ELSE [res |-> "Ok", v |-> TRUE]

\* Transaction::verify: the signature always verifies against the key that
\* was recovered from it; the address comparison is what can fail.
Transaction_verify(st, address) ==
    LET verified == TRUE
        addresses_match == (address = Transaction_recover_address(st))
    IN  IF st.v \notin 0..3
            THEN [res |-> "ConversionError", v |-> FALSE]
            ELSE [res |-> "Ok", v |-> (verified /\ addresses_match)]

\* A variant of Block::new that hashes the block without its transactions.
Block_new_hashes_header(number, parent_hash, transactions, state_root) ==
    LET block == [number |-> number, hash |-> None, parent_hash |-> parent_hash,
                  transactions |-> transactions,
                  transactions_root |-> Transaction_root_hash(transactions),
                  state_root |-> state_root]
    IN  [block EXCEPT !.hash = Some(Hash([block EXCEPT !.transactions = <<>>]))]

Block_new(number, parent_hash, transactions, state_root) ==
    LET block == [number |-> number, hash |-> None, parent_hash |-> parent_hash,
                  transactions |-> transactions,
                  transactions_root |-> Transaction_root_hash(transactions),
                  state_root |-> state_root]
    IN  [block EXCEPT !.hash = Some(Hash(block))]

Block_genesis == Block_new(0, ZeroH256, <<>>, ZeroH256)

(***************************************************************************)
(* chain::account, AccountStorage.  Every operation takes the store and    *)
(* returns the store after it with the result.                             *)
(***************************************************************************)
upsert(accts, key, data) ==
    [k \in DOMAIN accts \cup {key} |-> IF k = key THEN data ELSE accts[k]]

add_account(accts, key, data) == upsert(accts, key, data)

\* trie.get gives Ok(None) for a key that was never written.
get_account(accts, key) ==
    IF key \in DOMAIN accts
        THEN [res |-> "Ok", v |-> accts[key]]
        ELSE [res |-> "StorageNotFound", v |-> None]

\* A variant of add_contract_account that stores the account without code.
add_contract_account_no_code(accts, key, data) ==
    LET got == get_account(accts, key)
    IN  IF got.res # "Ok"
            THEN [accts |-> accts, res |-> got.res, v |-> None]
            ELSE LET account == to_address(<<key, got.v.nonce>>)
                 IN  [accts |-> add_account(accts, account, AccountData_new(None)),
                      res |-> "Ok", v |-> account]

add_contract_account(accts, key, data) ==
    LET got == get_account(accts, key)
    IN  IF got.res # "Ok"
            THEN [accts |-> accts, res |-> got.res, v |-> None]
            ELSE LET account == to_address(<<key, got.v.nonce>>)
                 IN  [accts |-> add_account(accts, account, AccountData_new(Some(data))),
                      res |-> "Ok", v |-> account]

add_account_balance(accts, key, amount) ==
    LET got == get_account(accts, key)
    IN  IF got.res # "Ok"
            THEN [accts |-> accts, res |-> got.res]
            ELSE [accts |-> upsert(accts, key,
                              [got.v EXCEPT !.balance = got.v.balance + amount]),
                  res |-> "Ok"]

\* U256 subtraction panics on underflow, before max() is reached.
subtract_account_balance(accts, key, amount) ==
    LET got == get_account(accts, key)
    IN  IF got.res # "Ok"
            THEN [accts |-> accts, res |-> got.res]
        ELSE IF amount > got.v.balance
            THEN [accts |-> accts, res |-> "panic"]
        ELSE LET balance == got.v.balance - amount
                 kept == IF balance > 0 THEN balance ELSE 0
             IN  [accts |-> upsert(accts, key, [got.v EXCEPT !.balance = kept]),
                  res |-> "Ok"]

\* A variant of transfer that debits the sender and credits nobody.
transfer_debit_only(accts, from, to, amount) ==
    subtract_account_balance(accts, from, amount)

transfer(accts, from, to, amount) ==
    LET debit == subtract_account_balance(accts, from, amount)
    IN  IF debit.res # "Ok"
            THEN debit
            ELSE add_account_balance(debit.accts, to, amount)

\* A variant of update_nonce that reports a nonce ahead as NonceTooLow.
update_nonce_low(accts, key, nonce) ==
    LET got == get_account(accts, key)
    IN  IF got.res # "Ok"
            THEN [accts |-> accts, res |-> got.res, v |-> None]
        ELSE IF nonce # got.v.nonce + 1
            THEN [accts |-> accts, res |-> "NonceTooLow", v |-> None]
        ELSE [accts |-> upsert(accts, key, [got.v EXCEPT !.nonce = nonce]),
              res |-> "Ok", v |-> Some(nonce)]

\* A variant of update_nonce that lets a nonce ahead of the stored one in.
update_nonce_ahead(accts, key, nonce) ==
    LET got == get_account(accts, key)
    IN  IF got.res # "Ok"
            THEN [accts |-> accts, res |-> got.res, v |-> None]
        ELSE IF nonce < got.v.nonce + 1
            THEN [accts |-> accts, res |-> "NonceTooLow", v |-> None]
        ELSE [accts |-> upsert(accts, key, [got.v EXCEPT !.nonce = nonce]),
              res |-> "Ok", v |-> Some(nonce)]

\* A variant of update_nonce that compares with the stored nonce itself.
update_nonce_off_by_one(accts, key, nonce) ==
    LET got == get_account(accts, key)
    IN  IF got.res # "Ok"
            THEN [accts |-> accts, res |-> got.res, v |-> None]
        ELSE IF nonce < got.v.nonce
            THEN [accts |-> accts, res |-> "NonceTooLow", v |-> None]
        ELSE IF nonce > got.v.nonce
            THEN [accts |-> accts, res |-> "NonceTooHigh", v |-> None]
        ELSE [accts |-> upsert(accts, key, [got.v EXCEPT !.nonce = nonce]),
              res |-> "Ok", v |-> Some(nonce)]

update_nonce(accts, key, nonce) ==
    LET got == get_account(accts, key)
    IN  IF got.res # "Ok"
            THEN [accts |-> accts, res |-> got.res, v |-> None]
        ELSE IF nonce < got.v.nonce + 1
            THEN [accts |-> accts, res |-> "NonceTooLow", v |-> None]
        ELSE IF nonce > got.v.nonce + 1
            THEN [accts |-> accts, res |-> "NonceTooHigh", v |-> None]
        ELSE [accts |-> upsert(accts, key, [got.v EXCEPT !.nonce = nonce]),
              res |-> "Ok", v |-> Some(nonce)]

\* A variant of the materialisation that writes a new record every time.
add_empty_account_overwrites(accts, key) ==
    [accts |-> add_account(accts, key, AccountData_new(None)), res |-> "Ok"]

\* The materialisation of the recipient: an existing record is kept.
add_empty_account(accts, key) ==
    IF key \in DOMAIN accts
        THEN [accts |-> accts, res |-> "Ok"]
        ELSE [accts |-> add_account(accts, key, AccountData_new(None)), res |-> "Ok"]

\* A variant of root_hash that commits to the addresses only.
root_hash_addresses(accts) == <<"root", DOMAIN accts>>

\* The root of the account trie.
root_hash(accts) == <<"root", accts>>

(***************************************************************************)
(* runtime::contract                                                       *)
(***************************************************************************)
WasmCode == "wasm"
CallData == {"call_ok", "call_err"}

\* call_function: the outcome of an invocation is a function of the module
\* bytes and of the (function, params) pair alone.
call_function(code, data) ==
    IF code = WasmCode /\ data = "call_ok" THEN "Ok" ELSE "RuntimeError"

(***************************************************************************)
(* chain::blockchain, BlockChain                                           *)
(***************************************************************************)
get_current_block(blks) ==
    IF Len(blks) = 0
        THEN [res |-> "BlockNotFound", v |-> None]
        ELSE [res |-> "Ok", v |-> blks[Len(blks)]]

\* index = (block_number - 1).as_usize(): U64 subtraction panics at 0.
get_block_by_number(blks, block_number) ==
    IF block_number = 0
        THEN [res |-> "panic", v |-> None]
    ELSE LET index == block_number - 1
         IN  IF index < Len(blks)
                 THEN [res |-> "Ok", v |-> blks[index + 1]]
                 ELSE [res |-> "BlockNotFound", v |-> None]

\* A variant of the push that puts the new block in front of the sequence.
push_block_in_front(blks, block) ==
    [blocks |-> <<block>> \o blks,
     returned |-> get_block_by_number(<<block>> \o blks, block.number)]

\* new_block: the sequence after the push and the block the call returns.
push_block(blks, block) ==
    [blocks |-> Append(blks, block),
     returned |-> get_block_by_number(Append(blks, block), block.number)]

\* A variant of new_block that links the block to the genesis parent.
new_block_unlinked(blks, transactions, state_trie) ==
    push_block(blks, Block_new(get_current_block(blks).v.number + 1,
                               ZeroH256, transactions, state_trie))

new_block(blks, transactions, state_trie) ==
    push_block(blks, Block_new(get_current_block(blks).v.number + 1,
                               get_current_block(blks).v.hash[1],
                               transactions, state_trie))

\* send_transaction after the conversion of the request: the nonce is
\* filled in from the sender's account and the hash is computed again.
enqueue(pool, transaction, account) ==
    IF account.res # "Ok"
        THEN [res |-> account.res, v |-> None, mempool |-> pool]
        ELSE LET nonce == IF transaction.nonce = None
                              THEN account.v.nonce + 1
                              ELSE transaction.nonce[1]
                 hashed == Transaction_hash([transaction EXCEPT !.nonce = Some(nonce)])
             IN  [res |-> "Ok", v |-> hashed.hash, mempool |-> Append(pool, hashed)]

\* TryInto<Transaction> for TransactionRequest
TransactionRequest_try_into(request) ==
    Transaction_new(IF request.from = None THEN ZeroAddress ELSE request.from[1],
                    request.to,
                    IF request.value = None THEN 0 ELSE request.value[1],
                    request.nonce, request.data)

send_transaction(accts, pool, request) ==
    enqueue(pool, TransactionRequest_try_into(request),
            get_account(accts, TransactionRequest_try_into(request).from))

\* From<Transaction> for TransactionRequest
TransactionRequest_from(t) ==
    [from |-> Some(t.from), to |-> t.to, value |-> Some(t.value),
     data |-> t.data, nonce |-> t.nonce]

\* send_raw_transaction: only an Err of verify is turned into
\* TransactionNotVerified; the boolean it returns is not looked at.
send_raw_transaction(accts, pool, signed_transaction) ==
    LET transaction == signed_transaction.raw_transaction
        verified == Transaction_verify(signed_transaction, transaction.from)
    IN  IF transaction.hash = None
            THEN [res |-> "MissingTransactionHash", v |-> None, mempool |-> pool]
        ELSE IF verified.res # "Ok"
            THEN [res |-> "TransactionNotVerified", v |-> None, mempool |-> pool]
        ELSE send_transaction(accts, pool, TransactionRequest_from(transaction))

NoNonceCall == [called |-> FALSE]

\* process_transaction, the match on the transaction kind: the store after
\* it, its result and the address of the contract it deployed.
execute_kind(ensured, transaction, kind) ==
    CASE kind.res # "Ok" ->
           [accts |-> ensured, res |-> kind.res, v |-> None]
      [] kind.kind = "Regular" ->
           LET moved == transfer(ensured, kind.args[1], kind.args[2], kind.args[3])
           IN  [accts |-> moved.accts, res |-> moved.res, v |-> None]
      [] kind.kind = "ContractDeployment" ->
           LET made == add_contract_account(ensured, kind.args[1], kind.args[2])
           IN  [accts |-> made.accts, res |-> "Ok",
                v |-> IF made.res = "Ok" THEN Some(made.v) ELSE None]
      [] kind.kind = "ContractExecution" ->
           LET callee == get_account(ensured, kind.args[2])
           IN  IF callee.res # "Ok"
                   THEN [accts |-> ensured, res |-> callee.res, v |-> None]
               ELSE IF callee.v.code_hash = None
                   THEN [accts |-> ensured, res |-> "NotAContractAccount", v |-> None]
               ELSE [accts |-> ensured,
                     res |-> call_function(callee.v.code_hash[1], kind.args[3]),
                     v |-> None]

\* process_transaction, the nonce update and the receipt.
finish_transaction(transaction, step, bumped) ==
    [accts |-> bumped.accts, res |-> bumped.res,
     contract_address |-> IF bumped.res = "Ok" THEN step.v ELSE None,
     update_nonce |-> [called |-> TRUE, key |-> transaction.from,
                       nonce |-> transaction.nonce[1], before |-> step.accts,
                       after |-> bumped.accts, res |-> bumped.res, v |-> bumped.v]]

after_kind(transaction, step) ==
    IF step.res # "Ok"
        THEN [accts |-> step.accts, res |-> step.res,
              contract_address |-> None, update_nonce |-> NoNonceCall]
        ELSE finish_transaction(transaction, step,
                 update_nonce(step.accts, transaction.from, transaction.nonce[1]))

\* process_transaction: the store after the call, the result, the receipt's
\* contract address, and a record of the update_nonce call it made.
process_transaction(accts, transaction) ==
    IF transaction.hash = None
        THEN [accts |-> accts, res |-> "MissingTransactionHash",
              contract_address |-> None, update_nonce |-> NoNonceCall]
    ELSE IF transaction.nonce = None
        THEN [accts |-> accts, res |-> "MissingTransactionNonce",
              contract_address |-> None, update_nonce |-> NoNonceCall]
    ELSE after_kind(transaction,
             execute_kind(IF transaction.to # None
                              THEN add_empty_account(accts, transaction.to[1]).accts
                              ELSE accts,
                          transaction, Transaction_kind(transaction)))

\* A variant of triage that pushes every failed transaction back.
triage_requeue_all(acc, tx, id, done) ==
    [acc EXCEPT
       !.accts = done.accts,
       !.calls = Append(@, [tx |-> tx, id |-> id, before |-> acc.accts,
                            after |-> done.accts, res |-> done.res,
                            update_nonce |-> done.update_nonce]),
       !.panicked = (done.res = "panic"),
       !.receipts = IF done.res = "Ok"
                        THEN Append(@, [block_hash |-> None, block_number |-> None,
                                        contract_address |-> done.contract_address,
                                        transaction_hash |-> tx.hash[1]])
                        ELSE @,
       !.processed = IF done.res = "Ok" THEN Append(@, tx) ELSE @,
       !.processed_ids = IF done.res = "Ok" THEN Append(@, id) ELSE @,
       !.requeued = IF done.res \notin {"Ok", "panic"} THEN Append(@, tx) ELSE @,
       !.requeued_ids = IF done.res \notin {"Ok", "panic"} THEN Append(@, id) ELSE @]

\* A variant of triage that drops a transaction whose nonce is ahead.
triage_drop_gapped(acc, tx, id, done) ==
    [acc EXCEPT
       !.accts = done.accts,
       !.calls = Append(@, [tx |-> tx, id |-> id, before |-> acc.accts,
                            after |-> done.accts, res |-> done.res,
                            update_nonce |-> done.update_nonce]),
       !.panicked = (done.res = "panic"),
       !.receipts = IF done.res = "Ok"
                        THEN Append(@, [block_hash |-> None, block_number |-> None,
                                        contract_address |-> done.contract_address,
                                        transaction_hash |-> tx.hash[1]])
                        ELSE @,
       !.processed = IF done.res = "Ok" THEN Append(@, tx) ELSE @,
       !.processed_ids = IF done.res = "Ok" THEN Append(@, id) ELSE @]

\* One turn of the loop of process_transactions: a success is collected with
\* its receipt, NonceTooHigh is pushed back to the mempool, any other error
\* is only logged, and a panic ends the task.
\* A variant of triage that also puts a requeued transaction in the block.
triage_includes_gapped(acc, tx, id, done) ==
    [acc EXCEPT
       !.accts = done.accts,
       !.calls = Append(@, [tx |-> tx, id |-> id, before |-> acc.accts,
                            after |-> done.accts, res |-> done.res,
                            update_nonce |-> done.update_nonce]),
       !.panicked = (done.res = "panic"),
       !.receipts = IF done.res = "Ok"
                        THEN Append(@, [block_hash |-> None, block_number |-> None,
                                        contract_address |-> done.contract_address,
                                        transaction_hash |-> tx.hash[1]])
                        ELSE @,
       !.processed = IF done.res \in {"Ok", "NonceTooHigh"} THEN Append(@, tx) ELSE @,
       !.processed_ids = IF done.res \in {"Ok", "NonceTooHigh"} THEN Append(@, id) ELSE @,
       !.requeued = IF done.res = "NonceTooHigh" THEN Append(@, tx) ELSE @,
       !.requeued_ids = IF done.res = "NonceTooHigh" THEN Append(@, id) ELSE @]

triage(acc, tx, id, done) ==
    [acc EXCEPT
       !.accts = done.accts,
       !.calls = Append(@, [tx |-> tx, id |-> id, before |-> acc.accts,
                            after |-> done.accts, res |-> done.res,
                            update_nonce |-> done.update_nonce]),
       !.panicked = (done.res = "panic"),
       !.receipts = IF done.res = "Ok"
                        THEN Append(@, [block_hash |-> None, block_number |-> None,
                                        contract_address |-> done.contract_address,
                                        transaction_hash |-> tx.hash[1]])
                        ELSE @,
       !.processed = IF done.res = "Ok" THEN Append(@, tx) ELSE @,
       !.processed_ids = IF done.res = "Ok" THEN Append(@, id) ELSE @,
       !.requeued = IF done.res = "NonceTooHigh" THEN Append(@, tx) ELSE @,
       !.requeued_ids = IF done.res = "NonceTooHigh" THEN Append(@, id) ELSE @]

run_transaction(acc, tx, id) ==
    IF acc.panicked
        THEN acc
        ELSE triage(acc, tx, id, process_transaction(acc.accts, tx))

\* A variant of the loop that runs the drained queue from its tail.
run_transactions_reversed(accts, txs, ids) ==
    LET start == [accts |-> accts, calls |-> <<>>, panicked |-> FALSE,
                  receipts |-> <<>>, processed |-> <<>>, processed_ids |-> <<>>,
                  requeued |-> <<>>, requeued_ids |-> <<>>]
        after[i \in 0..Len(txs)] ==
            IF i = 0 THEN start
            ELSE run_transaction(after[i - 1], txs[Len(txs) + 1 - i],
                                 ids[Len(txs) + 1 - i])
    IN  after[Len(txs)]

\* The loop over the drained queue, in order.
run_transactions(accts, txs, ids) ==
    LET start == [accts |-> accts, calls |-> <<>>, panicked |-> FALSE,
                  receipts |-> <<>>, processed |-> <<>>, processed_ids |-> <<>>,
                  requeued |-> <<>>, requeued_ids |-> <<>>]
        after[i \in 0..Len(txs)] ==
            IF i = 0 THEN start ELSE run_transaction(after[i - 1], txs[i], ids[i])
    IN  after[Len(txs)]

\* A variant of the insert that leaves the block hash of the receipt unset.
insert_receipt_without_hash(rcpts, unstamped, block) ==
    LET receipt == [unstamped EXCEPT !.block_number = Some(block.number)]
        key == receipt.transaction_hash
    IN  [k \in DOMAIN rcpts \cup {key} |-> IF k = key THEN receipt ELSE rcpts[k]]

\* receipts.insert of one receipt, stamped with the block new_block returned.
insert_receipt(rcpts, unstamped, block) ==
    LET receipt == [unstamped EXCEPT !.block_number = Some(block.number),
                                     !.block_hash = block.hash]
        key == receipt.transaction_hash
    IN  [k \in DOMAIN rcpts \cup {key} |-> IF k = key THEN receipt ELSE rcpts[k]]

\* TransactionStorage::get_transaction_receipt
get_transaction_receipt(rcpts, hash) ==
    IF hash \in DOMAIN rcpts
        THEN [res |-> "Ok", v |-> rcpts[hash]]
        ELSE [res |-> "TransactionNotFound", v |-> None]

insert_receipts(rcpts, list, block) ==
    LET after[i \in 0..Len(list)] ==
            IF i = 0 THEN rcpts ELSE insert_receipt(after[i - 1], list[i], block)
    IN  after[Len(list)]

(***************************************************************************)
(* The inputs of the model.                                                *)
(***************************************************************************)
AccountNumbers == {1}
Sender == Account(1)
Recipient == Account(2)
\* The address of the first contract Sender deploys.
Contract == to_address(<<Sender, 0>>)
TransferValue == 10
Overdraft == 2 * InitialBalance
Nonces == 1..MaxNonce

Request(from, to, value, nonce, data) ==
    [from |-> Some(from), to |-> to, value |-> Some(value), data |-> data,
     nonce |-> nonce]

TransferRequests ==
    {Request(Sender, Some(Recipient), TransferValue, n, None) :
        n \in {None} \cup {Some(k) : k \in Nonces}}
    \cup {Request(Sender, Some(Recipient), Overdraft, None, None),
          Request(Contract, Some(Recipient), TransferValue, None, None)}

DeployRequests ==
    {Request(Sender, None, 0, n, Some(WasmCode)) : n \in {None, Some(2)}}

\* A call of Contract that carries a value; before a deployment the address
\* holds no code.
CallRequests ==
    {Request(Sender, Some(Contract), TransferValue, None, Some(d)) : d \in CallData}

InvalidRequests == {Request(Sender, None, 0, None, None)}

Requests == TransferRequests \cup DeployRequests \cup CallRequests
            \cup InvalidRequests

\* Raw submissions: a transfer from Sender signed with each key, and one
\* whose recovery id is out of range.
RawTransaction ==
    Transaction_new(Sender, Some(Recipient), TransferValue, None, None)

SignedTransactions ==
    {Transaction_sign(RawTransaction, k) : k \in Keys}
    \cup {[Transaction_sign(RawTransaction, 1) EXCEPT !.v = 4]}

(***************************************************************************)
(* The state machine.                                                      *)
(***************************************************************************)
\* The tasks of the node: the transaction_processor and the tasks the RPC
\* server runs its handlers on.
Ticker == "ticker"
Handlers == {"rpc1", "rpc2"}
Tasks == {Ticker} \cup Handlers

\* What the loop of process_transactions has collected when it starts.
Started(accts) ==
    [accts |-> accts, calls |-> <<>>, panicked |-> FALSE,
     receipts |-> <<>>, processed |-> <<>>, processed_ids |-> <<>>,
     requeued |-> <<>>, requeued_ids |-> <<>>]

\* process_transactions before the drain: nothing taken, nothing collected.
\* open is history: a tick has drained a queue and has not yet inserted
\* the last of its receipts.
NoLocals == [open |-> FALSE, transactions |-> <<>>, ids |-> <<>>,
             ran |-> Started(EmptyMap), block |-> None]

\* A handler task that serves no call.
NoCall == [method |-> "none", request |-> None, queued |-> <<>>]

NoTick == [kind |-> "none", before |-> EmptyMap, receipts_before |-> {},
           drained |-> <<>>, drained_ids |-> <<>>, calls |-> <<>>]

\* BlockChain::new
Init ==
    /\ accounts = EmptyMap
    /\ blocks = <<Block_genesis>>
    /\ mempool = <<>>
    /\ receipts = EmptyMap
    /\ ticker = "running"
    /\ mempool_ids = <<>>
    /\ block_ids = <<<<>>>>
    /\ next_id = 0
    /\ committed = <<EmptyMap>>
    /\ nonce_ok = EmptyMap
    /\ tick = NoTick
    /\ chain_guard = None
    /\ storage_guard = None
    /\ pc = [t \in Tasks |-> IF t = Ticker THEN "sleep" ELSE "idle"]
    /\ local = [t \in Tasks |-> IF t = Ticker THEN NoLocals ELSE NoCall]

\* eth_addAccount: a fresh random address gets AccountData::new(None).
AddAccount(i) ==
    /\ Account(i) \notin DOMAIN accounts
    /\ accounts' = add_account(accounts, Account(i), AccountData_new(None))
    /\ UNCHANGED <<blocks, mempool, receipts, ticker, mempool_ids, block_ids,
                   next_id, committed, nonce_ok, tick>>
    /\ UNCHANGED locks

Submitted(sent) ==
    IF sent.res = "Ok"
        THEN /\ mempool' = sent.mempool
             /\ mempool_ids' = Append(mempool_ids, next_id + 1)
             /\ next_id' = next_id + 1
        ELSE UNCHANGED <<mempool, mempool_ids, next_id>>

\* eth_sendTransaction
SendTransaction(request) ==
    /\ next_id < MaxSends
    /\ Submitted(send_transaction(accounts, mempool, request))
    /\ UNCHANGED <<accounts, blocks, receipts, ticker, block_ids, committed,
                   nonce_ok, tick>>
    /\ UNCHANGED locks

\* eth_sendRawTransaction
SendRawTransaction(signed_transaction) ==
    /\ next_id < MaxSends
    /\ Submitted(send_raw_transaction(accounts, mempool, signed_transaction))
    /\ UNCHANGED <<accounts, blocks, receipts, ticker, block_ids, committed,
                   nonce_ok, tick>>
    /\ UNCHANGED locks

CountOk(calls, a) ==
    Cardinality({i \in 1..Len(calls) : calls[i].res = "Ok" /\ calls[i].tx.from = a})

\* process_transactions after the loop: the state root, the new block and
\* the receipts; a panic in the loop has ended the task before that.
Commit(ran, sealed) ==
    /\ accounts' = ran.accts
    /\ mempool' = ran.requeued
    /\ mempool_ids' = ran.requeued_ids
    /\ nonce_ok' =
          [a \in DOMAIN nonce_ok \cup {ran.calls[i].tx.from : i \in 1..Len(ran.calls)} |->
              (IF a \in DOMAIN nonce_ok THEN nonce_ok[a] ELSE 0) + CountOk(ran.calls, a)]
    /\ tick' = [kind |-> IF ran.panicked THEN "panicked" ELSE "sealed",
                before |-> accounts, receipts_before |-> DOMAIN receipts,
                drained |-> mempool, drained_ids |-> mempool_ids,
                calls |-> ran.calls]
    /\ UNCHANGED next_id
    /\ IF ran.panicked
          THEN /\ ticker' = "dead"
               /\ UNCHANGED <<blocks, receipts, block_ids, committed>>
          ELSE /\ blocks' = sealed.blocks
               /\ receipts' = insert_receipts(receipts, ran.receipts, sealed.returned.v)
               /\ block_ids' = Append(block_ids, ran.processed_ids)
               /\ committed' = Append(committed, accounts)
               /\ UNCHANGED ticker

\* A variant of the sealing that pushes no block when nothing succeeded.
Seal_skips_empty(ran) ==
    Commit(ran, IF ran.processed = <<>>
                    THEN [blocks |-> blocks, returned |-> get_current_block(blocks)]
                    ELSE new_block(blocks, ran.processed, root_hash(ran.accts)))

Seal(ran) == Commit(ran, new_block(blocks, ran.processed, root_hash(ran.accts)))

\* A variant of process_transactions without the test for an empty queue.
ProcessTransactions_seals_empty ==
    /\ ticker = "running"
    /\ Len(blocks) <= MaxBlocks
    /\ UNCHANGED locks
    /\ Seal(run_transactions(accounts, mempool, mempool_ids))

\* One iteration of the transaction_processor task: process_transactions
\* under the BlockChain lock.
ProcessTransactions ==
    /\ ticker = "running"
    /\ Len(blocks) <= MaxBlocks
    /\ UNCHANGED locks
    /\ IF mempool = <<>>
          THEN /\ tick' = [NoTick EXCEPT !.kind = "empty", !.before = accounts,
                                       !.receipts_before = DOMAIN receipts]
               /\ UNCHANGED <<accounts, blocks, mempool, receipts, ticker,
                              mempool_ids, block_ids, next_id, committed, nonce_ok>>
          ELSE Seal(run_transactions(accounts, mempool, mempool_ids))

Next ==
    \/ \E i \in AccountNumbers : AddAccount(i)
    \/ \E request \in Requests : SendTransaction(request)
    \/ \E signed_transaction \in SignedTransactions :
          SendRawTransaction(signed_transaction)
    \/ ProcessTransactions

Spec == Init /\ [][Next]_vars

(***************************************************************************)
(* The tasks and the two mutexes.  Context is Arc<Mutex<BlockChain>> and   *)
(* BlockChain.transactions is Arc<Mutex<TransactionStorage>>.  LockSpec    *)
(* runs the same code as Spec, one task at a time from one lock operation  *)
(* to the next.  The histories of whole ticks (committed, nonce_ok, tick)  *)
(* are kept by Spec only.                                                  *)
(***************************************************************************)
MaxLockSends == 2
MaxLockBlocks == 2

\* A transfer that succeeds, one whose nonce is ahead, and an overdraft.
LockRequests ==
    {Request(Sender, Some(Recipient), TransferValue, None, None),
     Request(Sender, Some(Recipient), TransferValue, Some(2), None),
     Request(Sender, Some(Recipient), Overdraft, None, None)}

Calls ==
    {[NoCall EXCEPT !.method = m] :
        m \in {"eth_addAccount", "eth_getBalance", "eth_getTransactionReceipt"}}
    \cup {[NoCall EXCEPT !.method = "eth_sendTransaction", !.request = Some(r)] :
             r \in LockRequests}

\* The positions at which a task waits for the TransactionStorage mutex, and
\* the position it is at once it holds the guard.
Guarded ==
    [drain_lock |-> "drain", requeue_lock |-> "requeue", receipt_lock |-> "insert",
     log_lock |-> "log", push_lock |-> "push", lookup_lock |-> "lookup"]

StorageWaits == DOMAIN Guarded

Goto(t, label) == pc' = [pc EXCEPT ![t] = label]

\* interval.tick().await returns.
Wake ==
    /\ pc[Ticker] = "sleep"
    /\ Len(blocks) <= MaxLockBlocks
    /\ Goto(Ticker, "chain")
    /\ UNCHANGED <<accounts, blocks, mempool, receipts, ticker, mempool_ids,
                   block_ids, next_id, committed, nonce_ok, tick,
                   chain_guard, storage_guard, local>>

\* The server starts a handler for a request.  eth_addAccount draws a fresh
\* address, so no two calls of it make the same account.
Call(t, call) ==
    /\ pc[t] = "idle"
    /\ call.method = "eth_sendTransaction" => next_id < MaxLockSends
    /\ call.method = "eth_addAccount" =>
          /\ Sender \notin DOMAIN accounts
          /\ \A u \in Handlers : local[u].method # "eth_addAccount"
    /\ Goto(t, "chain")
    /\ local' = [local EXCEPT ![t] = call]
    /\ UNCHANGED <<accounts, blocks, mempool, receipts, ticker, mempool_ids,
                   block_ids, next_id, committed, nonce_ok, tick,
                   chain_guard, storage_guard>>

\* blockchain.lock().await
LockChain(t) ==
    /\ pc[t] = "chain"
    /\ chain_guard = None
    /\ chain_guard' = Some(t)
    /\ Goto(t, IF t = Ticker THEN "drain_lock" ELSE "handler")
    /\ UNCHANGED <<accounts, blocks, mempool, receipts, ticker, mempool_ids,
                   block_ids, next_id, committed, nonce_ok, tick,
                   storage_guard, local>>

\* self.transactions.lock().await
LockStorage(t) ==
    /\ pc[t] \in StorageWaits
    /\ storage_guard = None
    /\ storage_guard' = Some(t)
    /\ Goto(t, Guarded[pc[t]])
    /\ UNCHANGED <<accounts, blocks, mempool, receipts, ticker, mempool_ids,
                   block_ids, next_id, committed, nonce_ok, tick,
                   chain_guard, local>>

\* The guard of the BlockChain is dropped when the handler returns, and at
\* the end of the if-let of the ticker's loop.
Unlock(t) ==
    /\ pc[t] = "unlock"
    /\ chain_guard' = None
    /\ Goto(t, IF t = Ticker THEN "sleep" ELSE "idle")
    /\ local' = [local EXCEPT ![t] = IF t = Ticker THEN NoLocals ELSE NoCall]
    /\ UNCHANGED <<accounts, blocks, mempool, receipts, ticker, mempool_ids,
                   block_ids, next_id, committed, nonce_ok, tick, storage_guard>>

\* A variant of the drain whose guard lives on after the statement.
Drain_keeps_guard ==
    /\ pc[Ticker] = "drain"
    /\ mempool' = <<>>
    /\ mempool_ids' = <<>>
    /\ local' = [local EXCEPT ![Ticker] =
                    [NoLocals EXCEPT !.open = (mempool # <<>>),
                                     !.transactions = mempool,
                                     !.ids = mempool_ids,
                                     !.ran = Started(accounts)]]
    /\ Goto(Ticker, IF mempool = <<>> THEN "unlock" ELSE "loop")
    /\ UNCHANGED <<accounts, blocks, receipts, ticker, block_ids, next_id,
                   committed, nonce_ok, tick, chain_guard, storage_guard>>

\* process_transactions: mempool.drain(0..) under a guard that is a
\* temporary of the statement.
Drain ==
    /\ pc[Ticker] = "drain"
    /\ mempool' = <<>>
    /\ mempool_ids' = <<>>
    /\ storage_guard' = None
    /\ local' = [local EXCEPT ![Ticker] =
                    [NoLocals EXCEPT !.open = (mempool # <<>>),
                                     !.transactions = mempool,
                                     !.ids = mempool_ids,
                                     !.ran = Started(accounts)]]
    /\ Goto(Ticker, IF mempool = <<>> THEN "unlock" ELSE "loop")
    /\ UNCHANGED <<accounts, blocks, receipts, ticker, block_ids, next_id,
                   committed, nonce_ok, tick, chain_guard>>

\* One turn of the loop: a panic unwinds the task, which drops the guard of
\* the BlockChain; NonceTooHigh goes on to the push_back.
Executed(ran) ==
    /\ accounts' = ran.accts
    /\ local' = [local EXCEPT ![Ticker].transactions = Tail(@),
                              ![Ticker].ids = Tail(@),
                              ![Ticker].ran = ran]
    /\ IF ran.panicked
          THEN /\ chain_guard' = None
               /\ ticker' = "dead"
               /\ Goto(Ticker, "dead")
          ELSE /\ Goto(Ticker, IF ran.requeued # <<>> THEN "requeue_lock" ELSE "loop")
               /\ UNCHANGED <<chain_guard, ticker>>

Execute ==
    /\ pc[Ticker] = "loop"
    /\ local[Ticker].transactions # <<>>
    /\ Executed(run_transaction(local[Ticker].ran,
                                Head(local[Ticker].transactions),
                                Head(local[Ticker].ids)))
    /\ UNCHANGED <<blocks, mempool, receipts, mempool_ids, block_ids, next_id,
                   committed, nonce_ok, tick, storage_guard>>

\* mempool.push_back(transaction) under a temporary guard.
Requeue ==
    /\ pc[Ticker] = "requeue"
    /\ mempool' = mempool \o local[Ticker].ran.requeued
    /\ mempool_ids' = mempool_ids \o local[Ticker].ran.requeued_ids
    /\ storage_guard' = None
    /\ local' = [local EXCEPT ![Ticker].ran.requeued = <<>>,
                              ![Ticker].ran.requeued_ids = <<>>]
    /\ Goto(Ticker, "loop")
    /\ UNCHANGED <<accounts, blocks, receipts, ticker, block_ids, next_id,
                   committed, nonce_ok, tick, chain_guard>>

\* After the loop: root_hash and new_block.
Sealing(sealed) ==
    /\ blocks' = sealed.blocks
    /\ block_ids' = Append(block_ids, local[Ticker].ran.processed_ids)
    /\ local' = [local EXCEPT ![Ticker].block = Some(sealed.returned.v),
                              ![Ticker].open = (local[Ticker].ran.receipts # <<>>)]
    /\ Goto(Ticker, IF local[Ticker].ran.receipts = <<>>
                        THEN "log_lock" ELSE "receipt_lock")

SealBlock ==
    /\ pc[Ticker] = "loop"
    /\ local[Ticker].transactions = <<>>
    /\ Sealing(new_block(blocks, local[Ticker].ran.processed, root_hash(accounts)))
    /\ UNCHANGED <<accounts, mempool, receipts, ticker, mempool_ids, next_id,
                   committed, nonce_ok, tick, chain_guard, storage_guard>>

\* receipts.insert of the next receipt under a temporary guard.
InsertReceipt ==
    /\ pc[Ticker] = "insert"
    /\ receipts' = insert_receipt(receipts, Head(local[Ticker].ran.receipts),
                                  local[Ticker].block[1])
    /\ storage_guard' = None
    /\ local' = [local EXCEPT ![Ticker].ran.receipts = Tail(@),
                              ![Ticker].open = (Len(local[Ticker].ran.receipts) > 1)]
    /\ Goto(Ticker, IF Len(local[Ticker].ran.receipts) > 1
                        THEN "receipt_lock" ELSE "log_lock")
    /\ UNCHANGED <<accounts, blocks, mempool, ticker, mempool_ids, block_ids,
                   next_id, committed, nonce_ok, tick, chain_guard>>

\* `let storage = self.transactions.lock().await` and the log line; the
\* guard is dropped at the end of the block.
Log ==
    /\ pc[Ticker] = "log"
    /\ storage_guard' = None
    /\ Goto(Ticker, "unlock")
    /\ UNCHANGED <<accounts, blocks, mempool, receipts, ticker, mempool_ids,
                   block_ids, next_id, committed, nonce_ok, tick,
                   chain_guard, local>>

\* eth_addAccount under the guard of the BlockChain.
eth_add_account(t) ==
    /\ pc[t] = "handler"
    /\ local[t].method = "eth_addAccount"
    /\ accounts' = add_account(accounts, Sender, AccountData_new(None))
    /\ Goto(t, "unlock")
    /\ UNCHANGED <<blocks, mempool, receipts, ticker, mempool_ids, block_ids,
                   next_id, committed, nonce_ok, tick,
                   chain_guard, storage_guard, local>>

\* eth_getBalance reads the account store under the guard of the BlockChain.
eth_get_balance(t) ==
    /\ pc[t] = "handler"
    /\ local[t].method = "eth_getBalance"
    /\ Goto(t, "unlock")
    /\ UNCHANGED <<accounts, blocks, mempool, receipts, ticker, mempool_ids,
                   block_ids, next_id, committed, nonce_ok, tick,
                   chain_guard, storage_guard, local>>

\* eth_getTransactionReceipt: get_transaction_receipt locks the storage.
eth_get_transaction_receipt(t) ==
    /\ pc[t] = "handler"
    /\ local[t].method = "eth_getTransactionReceipt"
    /\ Goto(t, "lookup_lock")
    /\ UNCHANGED <<accounts, blocks, mempool, receipts, ticker, mempool_ids,
                   block_ids, next_id, committed, nonce_ok, tick,
                   chain_guard, storage_guard, local>>

Lookup(t) ==
    /\ pc[t] = "lookup"
    /\ storage_guard' = None
    /\ Goto(t, "unlock")
    /\ UNCHANGED <<accounts, blocks, mempool, receipts, ticker, mempool_ids,
                   block_ids, next_id, committed, nonce_ok, tick,
                   chain_guard, local>>

\* eth_sendTransaction: send_transaction up to the lock of the storage; an
\* error returns at once.
Prepared(t, sent) ==
    /\ local' = [local EXCEPT ![t].queued = IF sent.res = "Ok" THEN sent.mempool ELSE <<>>]
    /\ Goto(t, IF sent.res = "Ok" THEN "push_lock" ELSE "unlock")

eth_send_transaction(t) ==
    /\ pc[t] = "handler"
    /\ local[t].method = "eth_sendTransaction"
    /\ Prepared(t, send_transaction(accounts, <<>>, local[t].request[1]))
    /\ UNCHANGED <<accounts, blocks, mempool, receipts, ticker, mempool_ids,
                   block_ids, next_id, committed, nonce_ok, tick,
                   chain_guard, storage_guard>>

\* TransactionStorage::send_transaction under a temporary guard.
Push(t) ==
    /\ pc[t] = "push"
    /\ mempool' = mempool \o local[t].queued
    /\ mempool_ids' = Append(mempool_ids, next_id + 1)
    /\ next_id' = next_id + 1
    /\ storage_guard' = None
    /\ Goto(t, "unlock")
    /\ UNCHANGED <<accounts, blocks, receipts, ticker, block_ids,
                   committed, nonce_ok, tick, chain_guard, local>>

LockNext ==
    \/ Wake
    \/ \E t \in Handlers : \E call \in Calls : Call(t, call)
    \/ \E t \in Tasks : LockChain(t)
    \/ \E t \in Tasks : LockStorage(t)
    \/ \E t \in Tasks : Unlock(t)
    \/ Drain
    \/ Execute
    \/ Requeue
    \/ SealBlock
    \/ InsertReceipt
    \/ Log
    \/ \E t \in Handlers : eth_add_account(t)
    \/ \E t \in Handlers : eth_get_balance(t)
    \/ \E t \in Handlers : eth_get_transaction_receipt(t)
    \/ \E t \in Handlers : Lookup(t)
    \/ \E t \in Handlers : eth_send_transaction(t)
    \/ \E t \in Handlers : Push(t)

LockSpec == Init /\ [][LockNext]_vars

(***************************************************************************)
(* The chain under deployments only: a deployment by Sender whose nonce is *)
(* ahead, and deployments by the contract account it creates.              *)
(* send_transaction asks for no signature, so any address that has an      *)
(* account can be the from of a request.                                   *)
(***************************************************************************)
OwnerRequests ==
    {Request(Sender, None, 0, Some(2), Some(WasmCode)),
     Request(Contract, None, 0, None, Some(WasmCode)),
     Request(Contract, None, 0, Some(1), Some(WasmCode))}

DeployNext ==
    \/ \E i \in AccountNumbers : AddAccount(i)
    \/ \E request \in OwnerRequests : SendTransaction(request)
    \/ ProcessTransactions

DeploySpec == Init /\ [][DeployNext]_vars

(***************************************************************************)
(* The account store on its own: the operations of AccountStorage applied  *)
(* to a store that starts empty, whatever their result.                    *)
(***************************************************************************)
\* The submissions of one sender, one of each of the four shapes of (to,
\* data): a deployment, a call and an invalid request, and the transfer of
\* the raw submissions.
ShapeRequests ==
    {Request(Sender, None, 0, None, Some(WasmCode)),
     Request(Sender, Some(Contract), TransferValue, None, Some("call_ok")),
     Request(Sender, None, 0, None, None)}

ShapeNext ==
    \/ \E i \in AccountNumbers : AddAccount(i)
    \/ \E request \in ShapeRequests : SendTransaction(request)
    \/ \E signed_transaction \in SignedTransactions :
          SendRawTransaction(signed_transaction)
    \/ ProcessTransactions

ShapeSpec == Init /\ [][ShapeNext]_vars

\* The submissions of one sender that meet in the queue: two transfers and
\* an overdraft without a nonce, and a transfer and a deployment that both
\* carry the nonce 2.
QueueRequests ==
    {Request(Sender, Some(Recipient), TransferValue, None, None),
     Request(Sender, Some(Contract), TransferValue, None, None),
     Request(Sender, Some(Recipient), Overdraft, None, None),
     Request(Sender, Some(Recipient), TransferValue, Some(2), None),
     Request(Sender, None, 0, Some(2), Some(WasmCode))}

QueueNext ==
    \/ \E i \in AccountNumbers : AddAccount(i)
    \/ \E request \in QueueRequests : SendTransaction(request)
    \/ ProcessTransactions

QueueSpec == Init /\ [][QueueNext]_vars

\* The two kinds of tick: of an empty queue, and of a queue with entries.
EmptyTick == mempool = <<>> /\ ProcessTransactions
SealingTick == mempool # <<>> /\ ProcessTransactions

\* A tick of a queue with entries can run: the task is alive and the chain
\* is below its bound.  Such a tick always changes the state (it seals a
\* block or ends the task), so this is ENABLED <<SealingTick>>_vars.
SealingEnabled ==
    /\ ticker = "running"
    /\ Len(blocks) <= MaxBlocks
    /\ mempool # <<>>

\* The transaction_processor task ticks on an interval for ever: a tick that
\* can run is run.  Weak fairness is stated for each kind of tick; for the
\* sealing tick it is WF_vars(SealingTick) with the enabling condition
\* written out as the state predicate SealingEnabled.
FairSpec ==
    /\ QueueSpec
    /\ WF_vars(EmptyTick)
    /\ \/ []<>(~SealingEnabled)
       \/ []<><<SealingTick>>_vars

MaxMoves == 2

Addresses == {Sender, Recipient, Contract}

Stored(accts) ==
    /\ accounts' = accts
    /\ UNCHANGED <<blocks, mempool, receipts, ticker, mempool_ids, block_ids,
                   next_id, committed, nonce_ok, tick>>
    /\ UNCHANGED locks

Store_add_account(key) ==
    /\ key \notin DOMAIN accounts
    /\ Stored(add_account(accounts, key, AccountData_new(None)))

Store_add_empty_account(key) ==
    /\ key # Sender
    /\ Stored(add_empty_account(accounts, key).accts)

Store_add_contract_account(key) ==
    /\ key = Sender
    /\ Stored(add_contract_account(accounts, key, WasmCode).accts)

\* The balances stay within MaxMoves transfers of the initial balance.
Store_transfer(from, to, amount) ==
    /\ from \in DOMAIN accounts
    /\ accounts[from].balance > InitialBalance - MaxMoves * TransferValue
    /\ to \in DOMAIN accounts =>
          accounts[to].balance < InitialBalance + MaxMoves * TransferValue
    /\ Stored(transfer(accounts, from, to, amount).accts)

Store_update_nonce(key, nonce) ==
    /\ key = Sender
    /\ Stored(update_nonce(accounts, key, nonce).accts)

StoreNext ==
    \/ Store_add_account(Sender)
    \/ \E key \in Addresses : Store_add_empty_account(key)
    \/ \E key \in Addresses : Store_add_contract_account(key)
    \/ \E from, to \in Addresses :
          \E amount \in {TransferValue, Overdraft} : Store_transfer(from, to, amount)
    \/ \E key \in Addresses : \E nonce \in Nonces : Store_update_nonce(key, nonce)

StoreSpec == Init /\ [][StoreNext]_vars

(***************************************************************************)
(* Properties.  The block with number N is blocks[N + 1]; tip is the last  *)
(* block of the sequence.                                                  *)
(***************************************************************************)
tip == blocks[Len(blocks)]

\* The entries of the most recent tick that ended with one of the results.
CallsWith(results) == SelectSeq(tick.calls, LAMBDA call : call.res \in results)
TxsOf(calls) == [i \in 1..Len(calls) |-> calls[i].tx]
IdsOf(calls) == [i \in 1..Len(calls) |-> calls[i].id]
Errors(calls) == {i \in 1..Len(calls) : calls[i].res \notin {"Ok", "panic"}}

\* C1 (block chaining): for every N >= 1 the block at index N has number N
\* and its parent_hash is the hash of the block at index N - 1; the genesis
\* block has number 0 and the numbers strictly increase along the sequence.
C1_BlockChaining ==
    /\ blocks[1].number = 0
    /\ \A n \in 1..(Len(blocks) - 1) :
          /\ blocks[n + 1].number = n
          /\ blocks[n + 1].parent_hash = blocks[n].hash[1]
    /\ \A i, j \in 1..Len(blocks) : i < j => blocks[i].number < blocks[j].number

\* Two ticks have sealed a block each on top of genesis.
C1_Witness ==
    /\ Len(blocks) >= 3
    /\ tick.kind = "sealed"

\* C2 (receipt stamping): after a tick that sealed block B, the receipt of
\* every transaction of B carries B's number and B's hash.
C2_ReceiptStamping ==
    tick.kind = "sealed" =>
        \A i \in 1..Len(tip.transactions) :
            /\ tip.transactions[i].hash[1] \in DOMAIN receipts
            /\ receipts[tip.transactions[i].hash[1]].block_number = Some(tip.number)
            /\ receipts[tip.transactions[i].hash[1]].block_hash = tip.hash

\* What get_block_by_number(n) has to give on the current chain.
BlockLookup(n, found) ==
    /\ found.res # "panic"
    /\ IF n <= tip.number
          THEN found.res = "Ok" /\ found.v.number = n
          ELSE found.res = "BlockNotFound"

\* C3 (block lookup by number): get_block_by_number(N) gives the block whose
\* number is N for 0 <= N <= tip.number, BlockNotFound above the tip, and
\* never panics.
C3_BlockLookup ==
    \A n \in 0..(tip.number + 1) : BlockLookup(n, get_block_by_number(blocks, n))

\* The records of the accounts that exist in a store, on another store.
SameRecords(before, after) ==
    \A a \in DOMAIN before : a \in DOMAIN after /\ after[a] = before[a]

\* C4 (transactional execution): a process_transaction call that returned
\* an error debited or credited no balance and changed no nonce: every
\* account that existed before the call has the record it had.
C4_TransactionalExecution ==
    \A i \in Errors(tick.calls) :
        SameRecords(tick.calls[i].before, tick.calls[i].after)

\* The signature of a raw submission verifies and recovers the from address.
Authentic(verified) == verified.res = "Ok" /\ verified.v

Rejected(pool, sent) == sent.res # "Ok" /\ sent.mempool = pool

\* C5 (raw-transaction authentication): a raw submission whose signature
\* does not verify, or recovers another address than the transaction's from
\* field, is rejected by send_raw_transaction and leaves the mempool as it
\* was.
C5_RawAuthentication ==
    \A st \in SignedTransactions :
        \/ Authentic(Transaction_verify(st, st.raw_transaction.from))
        \/ Rejected(mempool, send_raw_transaction(accounts, mempool, st))

\* The store a state root commits to; the roots are injective.
StoreOf(root) == root[2]

\* C6 (state-root commitment): the state_root of every sealed block N >= 1
\* commits to the store its tick started from with blocks[N]'s own
\* transactions, and nothing else, applied in order: every account of that
\* store has the same record under the root.
C6_StateRootCommitment ==
    \A n \in 2..Len(blocks) :
        SameRecords(run_transactions(committed[n], blocks[n].transactions,
                                     block_ids[n]).accts,
                    StoreOf(blocks[n].state_root))

\* What one recorded update_nonce call has to satisfy, given the stored nonce.
NonceContract(u, stored) ==
    /\ (u.res = "Ok") <=> (u.nonce = stored + 1)
    /\ u.res = "Ok" =>
          /\ u.v = Some(u.nonce)
          /\ u.after[u.key].nonce = u.nonce
    /\ u.nonce < stored + 1 => u.res = "NonceTooLow"
    /\ u.nonce > stored + 1 => u.res = "NonceTooHigh"
    /\ u.res # "Ok" => u.after = u.before

NonceCalls(calls) == {i \in 1..Len(calls) : calls[i].update_nonce.called}

\* C7 (update_nonce): the call succeeds exactly when the submitted nonce is
\* the stored nonce plus one, and then stores and returns it; below that it
\* gives NonceTooLow, above it NonceTooHigh, and both leave the store as it
\* was.
C7_UpdateNonce ==
    \A i \in NonceCalls(tick.calls) :
        NonceContract(tick.calls[i].update_nonce,
                      tick.calls[i].update_nonce.before[tick.calls[i].update_nonce.key].nonce)

\* One tick made a successful call, one too low and one too high.
C7_Witness ==
    \A r \in {"Ok", "NonceTooLow", "NonceTooHigh"} :
        \E i \in NonceCalls(tick.calls) : tick.calls[i].update_nonce.res = r

\* C8 (nonce monotonicity): the stored nonce of every account is the number
\* of successful update_nonce calls made on it so far.
C8_NonceMonotonicity ==
    \A a \in DOMAIN accounts :
        accounts[a].nonce = (IF a \in DOMAIN nonce_ok THEN nonce_ok[a] ELSE 0)

\* The mempool entries that were submitted after the drain of the tick.
Fresh(ids, from) == \A j \in from..Len(ids) : \A k \in RangeOf(tick.drained_ids) : ids[j] > k

Triage(ok, high) ==
    /\ tip.transactions = TxsOf(ok)
    /\ block_ids[Len(block_ids)] = IdsOf(ok)
    /\ Len(mempool) >= Len(high)
    /\ SubSeq(mempool, 1, Len(high)) = TxsOf(high)
    /\ SubSeq(mempool_ids, 1, Len(high)) = IdsOf(high)
    /\ Fresh(mempool_ids, Len(high) + 1)
    /\ DOMAIN receipts = tick.receipts_before \cup {c.tx.hash[1] : c \in RangeOf(ok)}

\* C9 (error triage): after a tick that sealed a block, the mempool holds
\* exactly the drained entries that failed with NonceTooHigh, in drain order
\* (followed only by later submissions), the new block holds exactly the
\* entries that succeeded, and an entry that failed with any other error is
\* in neither and got no receipt: the tick added receipts for the entries
\* that succeeded and for nothing else.
C9_ErrorTriage ==
    tick.kind = "sealed" => Triage(CallsWith({"Ok"}), CallsWith({"NonceTooHigh"}))

\* One tick had a success, a requeue and a drop.
C9_Witness ==
    /\ tick.kind = "sealed"
    /\ \E i, j, k \in 1..Len(tick.calls) :
          /\ tick.calls[i].res = "Ok"
          /\ tick.calls[j].res = "NonceTooHigh"
          /\ tick.calls[k].res \notin {"Ok", "NonceTooHigh"}

Sealed(id) == \E n \in 1..Len(block_ids) : id \in RangeOf(block_ids[n])

\* C10 (requeue on gap): an entry that failed with NonceTooHigh in a tick
\* is in the mempool from the end of that tick to the start of the next, and
\* no entry waiting in the mempool is in a sealed block.
C10_RequeueOnGap ==
    /\ \A i \in 1..Len(tick.calls) :
          tick.calls[i].res = "NonceTooHigh" =>
              \E j \in 1..Len(mempool) :
                  mempool_ids[j] = tick.calls[i].id /\ mempool[j] = tick.calls[i].tx
    /\ \A j \in 1..Len(mempool_ids) : ~Sealed(mempool_ids[j])

\* An entry failed with NonceTooHigh for the second time.
C10_Witness ==
    /\ Len(blocks) >= 3
    /\ \E i \in 1..Len(tick.calls) :
          /\ tick.calls[i].res = "NonceTooHigh"
          /\ \E j \in 1..Len(mempool_ids) : mempool_ids[j] = tick.calls[i].id

\* The transaction send_transaction queues for a request with a nonce.
Queued(request) == Transaction_hash(TransactionRequest_try_into(request))
Gapped(n) == Queued(Request(Sender, Some(Recipient), TransferValue, Some(n), None))

\* The last tick sealed a block after draining the queue for a Sender whose
\* stored nonce was n.
Ticked(queue, n) ==
    /\ tick.kind = "sealed"
    /\ tick.drained = queue
    /\ Sender \in DOMAIN tick.before
    /\ tick.before[Sender].nonce = n

InBlocks(tx) == \E n \in 1..Len(blocks) : tx \in RangeOf(blocks[n].transactions)

\* C11 (gapped nonce, S4): with nonces 3 and 1 queued in that order for an
\* account at nonce 0, the tick seals only nonce 1 and requeues nonce 3; the
\* tick that then drains nonce 3 and the newly sent nonce 2 seals only nonce
\* 2 and requeues nonce 3 again; the tick after it seals nonce 3, in a later
\* block than any block holding nonce 2.
C11_GappedNonce ==
    /\ Ticked(<<Gapped(3), Gapped(1)>>, 0) =>
          /\ tip.transactions = <<Gapped(1)>>
          /\ Len(mempool) >= 1 /\ mempool[1] = Gapped(3)
    /\ Ticked(<<Gapped(3), Gapped(2)>>, 1) =>
          /\ tip.transactions = <<Gapped(2)>>
          /\ Len(mempool) >= 1 /\ mempool[1] = Gapped(3)
    /\ Ticked(<<Gapped(3)>>, 2) =>
          /\ tip.transactions = <<Gapped(3)>>
          /\ \A n \in 1..Len(blocks) :
                Gapped(2) \in RangeOf(blocks[n].transactions) => n < Len(blocks)

\* The three ticks of the scenario have run.
C11_Witness ==
    /\ Ticked(<<Gapped(3)>>, 2)
    /\ Len(blocks) = 4
    /\ blocks[2].transactions = <<Gapped(1)>>
    /\ blocks[3].transactions = <<Gapped(2)>>
    /\ blocks[4].transactions = <<Gapped(3)>>

\* C11 as stated: one tick after nonce 2 was sent, nonce 2 and nonce 3 are
\* both in sealed blocks.
C11_OneMoreTick ==
    Ticked(<<Gapped(3), Gapped(2)>>, 1) => InBlocks(Gapped(2)) /\ InBlocks(Gapped(3))

\* C12 (ordering): submissions are appended at the mempool tail, a tick runs
\* the drained entries in mempool order, the sealed block lists the entries
\* that succeeded in that order, and when all succeed the block's list is
\* the drained queue.
C12_Ordering ==
    /\ \A j, k \in 1..Len(mempool_ids) :
          (j < k /\ mempool_ids[k] \notin RangeOf(tick.drained_ids)) =>
              \/ mempool_ids[j] \in RangeOf(tick.drained_ids)
              \/ mempool_ids[j] < mempool_ids[k]
    /\ tick.kind = "sealed" =>
          /\ TxsOf(tick.calls) = tick.drained
          /\ IdsOf(tick.calls) = tick.drained_ids
          /\ tip.transactions = TxsOf(CallsWith({"Ok"}))
          /\ Errors(tick.calls) = {} => tip.transactions = tick.drained

\* A tick ran three different entries and all of them succeeded.
C12_Witness ==
    /\ tick.kind = "sealed"
    /\ Len(tick.drained) = 3
    /\ Cardinality(RangeOf(tick.drained)) = 3
    /\ Errors(tick.calls) = {}
    /\ tip.transactions = tick.drained

BlocksWith(hash) ==
    {n \in 1..Len(blocks) :
        \E i \in 1..Len(blocks[n].transactions) : blocks[n].transactions[i].hash[1] = hash}

\* C13 (receipt soundness): the hash of every stored receipt is the hash of
\* a transaction of exactly one sealed block.
C13_ReceiptSoundness ==
    \A hash \in DOMAIN receipts : Cardinality(BlocksWith(hash)) = 1

\* C14 (mempool freshness): no transaction in the mempool has the hash of a
\* transaction of a sealed block.
C14_MempoolFreshness ==
    \A j \in 1..Len(mempool) : BlocksWith(mempool[j].hash[1]) = {}

\* A plain transfer of TransferValue from Sender to Recipient with nonce 1.
PlainTransfer(tx) ==
    /\ tx.from = Sender /\ tx.to = Some(Recipient) /\ tx.value = TransferValue
    /\ tx.nonce = Some(1) /\ tx.data = None

\* Sender is as eth_addAccount made it, Recipient has no account, and the
\* transfer is the only entry of the mempool.
TransferSetup ==
    /\ Sender \in DOMAIN accounts
    /\ accounts[Sender] = AccountData_new(None)
    /\ Recipient \notin DOMAIN accounts
    /\ Len(mempool) = 1
    /\ PlainTransfer(mempool[1])

Amounts == {0, TransferValue, InitialBalance, Overdraft}

Saturated(a, balance, amount, out) ==
    /\ out.res = "Ok"
    /\ out.accts[a].balance = IF amount <= balance THEN balance - amount ELSE 0

\* C16 (sub_balance saturates): for every existing account with balance b
\* and every amount a, subtract_account_balance succeeds and leaves b - a
\* when a <= b and 0 when a > b.
C16_SubBalanceSaturates ==
    \A a \in DOMAIN accounts : \A amount \in Amounts :
        Saturated(a, accounts[a].balance, amount,
                  subtract_account_balance(accounts, a, amount))

NeverWritten == {Sender, Recipient, Contract} \ DOMAIN accounts

\* C17 (unknown account): get_account of an address that was never written
\* fails with AccountNotFound, and so does send_transaction from it, which
\* leaves the mempool as it was.
C17_AccountNotFound ==
    /\ \A key \in NeverWritten : get_account(accounts, key).res = "AccountNotFound"
    /\ \A request \in Requests :
          request.from[1] \in NeverWritten =>
              /\ send_transaction(accounts, mempool, request).res = "AccountNotFound"
              /\ send_transaction(accounts, mempool, request).mempool = mempool

\* C18 (pipeline survival): no failure of a transaction or of a step of a
\* tick ends the transaction_processor task.
C18_PipelineSurvival == ticker = "running"

\* A task that waits for a mutex another task, or itself, holds cannot step.
CanStep(t) ==
    /\ ~(pc[t] = "chain" /\ chain_guard # None)
    /\ ~(pc[t] \in StorageWaits /\ storage_guard # None)

\* C19 (lock ordering): a task waits for or holds the TransactionStorage
\* mutex only while it holds the BlockChain mutex, never waits for the
\* TransactionStorage mutex while holding its guard, never waits for the
\* BlockChain mutex while holding either guard, and the holder of a guard
\* is never blocked, so that no cycle of waiting tasks exists.
C19_LockOrdering ==
    \A t \in Tasks :
        /\ (pc[t] \in StorageWaits \/ storage_guard = Some(t)) => chain_guard = Some(t)
        /\ pc[t] \in StorageWaits => storage_guard # Some(t)
        /\ pc[t] = "chain" => (storage_guard # Some(t) /\ chain_guard # Some(t))
        /\ (chain_guard = Some(t) \/ storage_guard = Some(t)) => CanStep(t)

\* The ticker inserts a receipt under both guards while both handlers wait
\* for the BlockChain mutex.
C19_Witness ==
    /\ pc[Ticker] = "insert"
    /\ chain_guard = Some(Ticker)
    /\ storage_guard = Some(Ticker)
    /\ \A t \in Handlers : pc[t] = "chain"

AllReceipted ==
    \A n \in 1..Len(blocks) : \A i \in 1..Len(blocks[n].transactions) :
        blocks[n].transactions[i].hash[1] \in DOMAIN receipts

\* C20 (tick atomicity): whenever a handler holds the guard of the
\* BlockChain, the ticker is outside process_transactions, no tick is left
\* between its drain and its last receipt, and every transaction of a
\* sealed block has its receipt.
C20_TickAtomicity ==
    \A t \in Handlers :
        chain_guard = Some(t) =>
            /\ pc[Ticker] \in {"sleep", "chain", "dead"}
            /\ ~local[Ticker].open
            /\ AllReceipted

\* The successful deployments among the calls of a tick.
Deployments(calls) ==
    {i \in 1..Len(calls) :
        /\ calls[i].res = "Ok"
        /\ Transaction_kind(calls[i].tx).kind = "ContractDeployment"}

\* The address (owner, owner's stored nonce at the call) gives.
AddressOf(call) == to_address(<<call.tx.from, call.before[call.tx.from].nonce>>)

ContractReceipts == {h \in DOMAIN receipts : receipts[h].contract_address # None}

\* C21 (contract-address determinism): the contract address in the receipt
\* of a deployment is the address of (owner, owner's stored nonce when the
\* deployment ran), and the receipts of two deployments carry two
\* different contract addresses.
C21_ContractAddress ==
    /\ tick.kind = "sealed" =>
          \A i \in Deployments(tick.calls) :
              receipts[tick.calls[i].tx.hash[1]].contract_address
                  = Some(AddressOf(tick.calls[i]))
    /\ \A h1, h2 \in ContractReceipts :
          h1 # h2 => receipts[h1].contract_address # receipts[h2].contract_address

\* What a successful deployment call has left: the account at the address
\* holds the data of the transaction as code with nonce 0, and the owner's
\* nonce went up by one, in the update_nonce call and not before it.
Deployed(call, address) ==
    /\ address \in DOMAIN call.after
    /\ call.after[address].code_hash = call.tx.data
    /\ call.after[address].nonce = 0
    /\ call.update_nonce.called
    /\ call.update_nonce.before[call.tx.from].nonce = call.before[call.tx.from].nonce
    /\ call.after[call.tx.from].nonce = call.before[call.tx.from].nonce + 1

\* C22 (contract deployment): every deployment a tick seals has a receipt
\* with a contract address, the account at that address holds exactly the
\* transaction's data as code with nonce 0, and the owner's nonce was
\* incremented once, by update_nonce.
C22_ContractDeployment ==
    tick.kind = "sealed" =>
        \A i \in Deployments(tick.calls) :
            /\ tick.calls[i].tx \in RangeOf(tip.transactions)
            /\ tick.calls[i].tx.hash[1] \in DOMAIN receipts
            /\ receipts[tick.calls[i].tx.hash[1]].contract_address # None
            /\ Deployed(tick.calls[i],
                        receipts[tick.calls[i].tx.hash[1]].contract_address[1])

\* A tick has sealed a deployment of Sender.
C22_Witness ==
    /\ tick.kind = "sealed"
    /\ \E i \in Deployments(tick.calls) :
          /\ tick.calls[i].tx.from = Sender
          /\ tick.calls[i].tx \in RangeOf(tip.transactions)
          /\ Contract \in DOMAIN accounts

\* The hash a submission returns is the hash of the entry it queued.
Returned(sent) ==
    sent.res = "Ok" => sent.v = sent.mempool[Len(sent.mempool)].hash

Found(hash, got) == got.res = "Ok" /\ got.v.transaction_hash = hash

\* C23 (receipt lookup by returned hash): a submission returns the hash of
\* the transaction it queued; once the next tick has executed that
\* transaction successfully, get_transaction_receipt of that hash gives a
\* receipt with that transaction_hash; for a transaction that is only in
\* the mempool, and for an unknown hash, it fails with TransactionNotFound.
C23_ReceiptLookup ==
    /\ \A request \in Requests :
          Returned(send_transaction(accounts, mempool, request))
    /\ \A st \in SignedTransactions :
          Returned(send_raw_transaction(accounts, mempool, st))
    /\ \A i \in 1..Len(tick.calls) :
          tick.calls[i].res = "Ok" =>
              Found(tick.calls[i].tx.hash[1],
                    get_transaction_receipt(receipts, tick.calls[i].tx.hash[1]))
    /\ \A j \in 1..Len(mempool) :
          BlocksWith(mempool[j].hash[1]) = {} =>
              get_transaction_receipt(receipts, mempool[j].hash[1]).res
                  = "TransactionNotFound"
    /\ get_transaction_receipt(receipts, ZeroH256).res = "TransactionNotFound"

\* C24 (receipts are write-once): no step replaces, modifies or removes the
\* receipt stored under a transaction hash.
C24_ReceiptsWriteOnce ==
    [][\A h \in DOMAIN receipts :
          h \in DOMAIN receipts' /\ receipts'[h] = receipts[h]]_vars

Permuted(txs, p) == [i \in 1..Len(txs) |-> txs[p[i]]]

\* C25 (transactions-root commitment): the transactions_root of every
\* block is root_hash of its transactions, and root_hash of the
\* transactions of the newest block is the same for every permutation of
\* the list.
C25_TransactionsRoot ==
    /\ \A n \in 1..Len(blocks) :
          blocks[n].transactions_root = Transaction_root_hash(blocks[n].transactions)
    /\ \A p \in Permutations(1..Len(tip.transactions)) :
          Transaction_root_hash(Permuted(tip.transactions, p)) = tip.transactions_root

\* The newest block holds three different transactions.
C25_Witness ==
    /\ Len(tip.transactions) = 3
    /\ Cardinality(RangeOf(tip.transactions)) = 3

\* Writes of two records to two addresses.
Writes ==
    {Sender, Recipient}
        \X {AccountData_new(None), [AccountData_new(None) EXCEPT !.nonce = 1]}

Written(accts, w) == add_account(accts, w[1], w[2])

\* The stores one more operation on a store can leave.
Changes(accts) ==
    {Written(accts, w) : w \in Writes}
    \cup {transfer(accts, from, to, TransferValue).accts : from, to \in Addresses}
    \cup {update_nonce(accts, Sender, nonce).accts : nonce \in Nonces}

Modified(T) == [T EXCEPT !.value = @ + 1]

\* A signed transaction whose raw_transaction was replaced after signing.
Tampered(st, raw) == [st EXCEPT !.raw_transaction = raw]

NeverTrue(verified) == verified.res # "Ok" \/ ~verified.v

\* T signed with k verifies against the address of k and recovers it, and
\* verifies neither against the address of another key nor once modified.
RoundTrip(T, k) ==
    /\ Authentic(Transaction_verify(Transaction_sign(T, k), public_key_address(k)))
    /\ Transaction_recover_address(Transaction_sign(T, k)) = public_key_address(k)
    /\ \A other \in Keys \ {k} :
          NeverTrue(Transaction_verify(Transaction_sign(T, k),
                                       public_key_address(other)))
    /\ NeverTrue(Transaction_verify(Tampered(Transaction_sign(T, k), Modified(T)),
                                    public_key_address(k)))

\* C27 (signed round-trip): for every transaction T and key k, verify of
\* T.sign(k) against the address of k returns true and recover_address
\* gives the address of k; verify never returns true against the address
\* of another key, nor when raw_transaction was changed after signing.
\* The transactions are RawTransaction and the queued ones.
C27_SignedRoundTrip ==
    \A k \in Keys :
        /\ RoundTrip(RawTransaction, k)
        /\ \A i \in 1..Len(mempool) : RoundTrip(mempool[i], k)

\* Two different transactions are queued, one of them with code.
C27_Witness ==
    /\ Len(mempool) >= 2
    /\ mempool[1] # mempool[2]
    /\ \E i \in 1..Len(mempool) : mempool[i].data # None

\* The store after the materialisation of addr.
Ensured(accts, addr) == add_empty_account(accts, addr).accts

\* The accounts other than addr are the same in both stores.
OthersKept(before, after, addr) ==
    /\ DOMAIN after \ {addr} = DOMAIN before \ {addr}
    /\ \A a \in DOMAIN before \ {addr} : after[a] = before[a]

Classified(t, kind) ==
    /\ (t.to # None /\ t.data = None) =>
          kind = [res |-> "Ok", kind |-> "Regular",
                  args |-> <<t.from, t.to[1], t.value>>]
    /\ (t.to = None /\ t.data # None) =>
          kind = [res |-> "Ok", kind |-> "ContractDeployment",
                  args |-> <<t.from, t.data[1]>>]
    /\ (t.to # None /\ t.data # None) =>
          kind = [res |-> "Ok", kind |-> "ContractExecution",
                  args |-> <<t.from, t.to[1], t.data[1]>>]
    /\ (t.to = None /\ t.data = None) => kind.res = "InvalidTransaction"

\* The calls of the most recent tick on a transaction of the invalid shape.
InvalidCalls ==
    {i \in 1..Len(tick.calls) :
        tick.calls[i].tx.to = None /\ tick.calls[i].tx.data = None}

\* C29 (classification): kind() gives Regular(from, to, value) for (to,
\* no data), ContractDeployment(from, data) for (no to, data),
\* ContractExecution(from, to, data) for (to, data) and InvalidTransaction
\* for (no to, no data); a transaction of the invalid shape that a tick
\* executes fails with that error, leaves the account store as it was, and
\* is neither sealed in a block nor queued again.
C29_Classification ==
    /\ \A i \in 1..Len(mempool) :
          Classified(mempool[i], Transaction_kind(mempool[i]))
    /\ \A i \in 1..Len(tick.calls) :
          Classified(tick.calls[i].tx, Transaction_kind(tick.calls[i].tx))
    /\ \A i \in InvalidCalls :
          /\ tick.calls[i].res = "InvalidTransaction"
          /\ tick.calls[i].after = tick.calls[i].before
          /\ tick.calls[i].id \notin RangeOf(mempool_ids)
          /\ \A b \in 1..Len(block_ids) : tick.calls[i].id \notin RangeOf(block_ids[b])

\* A tick that sealed a block executed an invalid transaction on a store
\* with accounts, next to a transaction of another shape.
C29_Witness ==
    /\ tick.kind = "sealed"
    /\ InvalidCalls # {}
    /\ \E i \in 1..Len(tick.calls) : i \notin InvalidCalls /\ tick.calls[i].res = "Ok"
    /\ \A i \in InvalidCalls : DOMAIN tick.calls[i].before # {}

\* The calls of the most recent tick on a ContractExecution transaction.
ExecutionCalls ==
    {i \in 1..Len(tick.calls) :
        tick.calls[i].tx.to # None /\ tick.calls[i].tx.data # None}

Balances(accts) == [a \in DOMAIN accts |-> accts[a].balance]

Codes(accts) == [a \in DOMAIN accts |-> accts[a].code_hash]

\* The sandbox was entered: the callee held code when the call began.  Its
\* outcome is the one of call_function on that code and the data.
Invoked(call) ==
    /\ call.tx.to[1] \in DOMAIN call.before
    /\ call.before[call.tx.to[1]].code_hash # None

SandboxOutcome(call) ==
    call_function(call.before[call.tx.to[1]].code_hash[1], call.tx.data[1])

\* C30 (sandbox frame): a ContractExecution transaction, whether it
\* succeeds or fails, leaves the balances and the code of the store as
\* they were; when it succeeds the store differs in the sender's nonce
\* only; and the call fails in the sandbox exactly when call_function on
\* the callee's code and the data fails, whatever was called before.
C30_SandboxFrame ==
    \A i \in ExecutionCalls :
        /\ Balances(tick.calls[i].after) = Balances(tick.calls[i].before)
        /\ Codes(tick.calls[i].after) = Codes(tick.calls[i].before)
        /\ tick.calls[i].res = "Ok" =>
              tick.calls[i].after =
                  [tick.calls[i].before EXCEPT
                     ![tick.calls[i].tx.from].nonce = tick.calls[i].tx.nonce[1]]
        /\ Invoked(tick.calls[i]) =>
              (tick.calls[i].res = "RuntimeError"
                  <=> SandboxOutcome(tick.calls[i]) # "Ok")

\* C31 (empty tick): process_transactions on an empty mempool returns Ok,
\* seals no block and leaves the block sequence, the receipts, the account
\* store and the mempool as they were.
C31_EmptyTick ==
    [][(mempool = <<>> /\ ProcessTransactions) =>
          /\ tick'.kind = "empty"
          /\ ticker' = ticker
          /\ UNCHANGED <<accounts, blocks, mempool, receipts>>]_vars

\* An empty tick has run on a chain with sealed blocks, receipts and
\* accounts.
C31_Witness ==
    /\ tick.kind = "empty"
    /\ mempool = <<>>
    /\ Len(blocks) > 1
    /\ DOMAIN receipts # {}
    /\ tick.before = accounts

\* The hash field of a block is the hash of the block with hash = None.
Hashed(block) == block.hash = Some(Hash([block EXCEPT !.hash = None]))

\* C32 (genesis and hash presence): the block sequence is never empty, its
\* first block is the genesis block (number 0, parent_hash zero, no
\* transactions, state_root zero), every block carries the hash of its
\* serialisation with hash = None, and so new_block finds a current block
\* with a hash and returns Ok.
C32_GenesisAndHashes ==
    /\ Len(blocks) >= 1
    /\ blocks[1].number = 0
    /\ blocks[1].parent_hash = ZeroH256
    /\ blocks[1].transactions = <<>>
    /\ blocks[1].state_root = ZeroH256
    /\ \A n \in 1..Len(blocks) : Hashed(blocks[n])
    /\ get_current_block(blocks).res = "Ok"
    /\ get_current_block(blocks).v.hash # None
    /\ new_block(blocks, mempool, root_hash(accounts)).returned.res = "Ok"

\* The chain holds a sealed block with transactions and a sealed empty one.
C32_Witness ==
    /\ \E n \in 2..Len(blocks) : blocks[n].transactions # <<>>
    /\ \E n \in 2..Len(blocks) : blocks[n].transactions = <<>>

\* The transactions of the calls that returned Ok, in the order of the calls.
Succeeded(calls) == TxsOf(SelectSeq(calls, LAMBDA call : call.res = "Ok"))

\* Every call of the tick failed with NonceTooHigh.
AllGapped(calls) == \A i \in 1..Len(calls) : calls[i].res = "NonceTooHigh"

\* C33 (one block per non-empty tick): a tick that drains a non-empty
\* mempool and completes appends exactly one block to the sequence, and the
\* transactions of that block are exactly the ones that succeeded in the
\* tick; when none succeeded the block is empty, and when all of them were
\* ahead of their nonce the mempool is what it was, so that every further
\* tick seals one more empty block.
C33_OneBlockPerTick ==
    [][(mempool # <<>> /\ ProcessTransactions /\ ticker' = "running") =>
          /\ tick'.kind = "sealed"
          /\ Len(blocks') = Len(blocks) + 1
          /\ SubSeq(blocks', 1, Len(blocks)) = blocks
          /\ TxsOf(tick'.calls) = mempool
          /\ blocks'[Len(blocks')].transactions = Succeeded(tick'.calls)
          /\ AllGapped(tick'.calls) =>
                /\ blocks'[Len(blocks')].transactions = <<>>
                /\ mempool' = mempool]_vars

\* Two ticks in a row sealed an empty block over the same gapped entries.
C33_Witness ==
    /\ tick.kind = "sealed"
    /\ Len(blocks) >= 3
    /\ mempool = tick.drained
    /\ mempool # <<>>
    /\ AllGapped(tick.calls)
    /\ tip.transactions = <<>>
    /\ blocks[Len(blocks) - 1].transactions = <<>>

\* The positions of a submission in a list of submission numbers.
Positions(ids, id) == {k \in 1..Len(ids) : ids[k] = id}

\* The entry (tx, id) drained by the tick is at most once in the new block
\* (sealedIds are the submission numbers of its transactions) or in the
\* mempool, never in both; in the block it has a receipt under its hash.
Placed(tx, id, sealedIds) ==
    /\ Cardinality(Positions(sealedIds, id))
          + Cardinality(Positions(mempool_ids, id)) <= 1
    /\ \A k \in Positions(sealedIds, id) :
          /\ tip.transactions[k] = tx
          /\ tx.hash[1] \in DOMAIN receipts
          /\ receipts[tx.hash[1]].transaction_hash = tx.hash[1]
    /\ \A k \in Positions(mempool_ids, id) : mempool[k] = tx

\* C34 (tick partition): after a tick that completed, every entry it drained
\* is in exactly one of three places: the new block, with a receipt; the
\* mempool; or neither.  No entry is in both and none is twice in the block
\* or in the mempool, and the block holds drained entries only.
C34_TickPartition ==
    tick.kind = "sealed" =>
        /\ Len(tip.transactions) = Len(block_ids[Len(block_ids)])
        /\ Len(mempool) = Len(mempool_ids)
        /\ RangeOf(block_ids[Len(block_ids)]) \subseteq RangeOf(tick.drained_ids)
        /\ \A i \in 1..Len(tick.drained) :
              Placed(tick.drained[i], tick.drained_ids[i], block_ids[Len(block_ids)])

\* One tick included an entry, requeued one and dropped one.
C34_Witness ==
    /\ tick.kind = "sealed"
    /\ \E i, j, k \in 1..Len(tick.drained_ids) :
          /\ tick.drained_ids[i] \in RangeOf(block_ids[Len(block_ids)])
          /\ tick.drained_ids[j] \in RangeOf(mempool_ids)
          /\ tick.drained_ids[k] \notin RangeOf(block_ids[Len(block_ids)])
                                       \cup RangeOf(mempool_ids)

\* C35 (append-only block sequence): no step modifies, reorders or removes
\* a block that is in the sequence; the length never decreases, grows by at
\* most one in a step, and only a tick makes it grow.
C35_AppendOnly ==
    [][/\ Len(blocks') >= Len(blocks)
       /\ Len(blocks') <= Len(blocks) + 1
       /\ SubSeq(blocks', 1, Len(blocks)) = blocks
       /\ blocks' # blocks => (mempool # <<>> /\ ProcessTransactions)]_vars

\* Ticks have sealed three blocks on top of the genesis block, with and
\* without transactions.
C35_Witness ==
    /\ Len(blocks) >= 4
    /\ \E n \in 2..Len(blocks) : blocks[n].transactions # <<>>
    /\ \E n \in 2..Len(blocks) : blocks[n].transactions = <<>>
    /\ mempool # <<>>

\* The sum of the balances of a store.
Total(accts) ==
    LET sum[D \in SUBSET DOMAIN accts] ==
            IF D = {}
                THEN 0
                ELSE LET a == CHOOSE x \in D : TRUE
                     IN  accts[a].balance + sum[D \ {a}]
    IN  sum[DOMAIN accts]

\* A transfer between two accounts that exist, covered by the sender's
\* balance.
Covered(call) ==
    /\ call.tx.to # None /\ call.tx.data = None
    /\ call.tx.from \in DOMAIN call.before
    /\ call.tx.to[1] \in DOMAIN call.before
    /\ call.before[call.tx.from].balance >= call.tx.value

\* The accounts a call added, each created with the initial balance,
\* account for the whole change of the total.
Materialised(before, after) ==
    /\ DOMAIN before \subseteq DOMAIN after
    /\ Total(after)
          = Total(before) + InitialBalance * Cardinality(DOMAIN after \ DOMAIN before)

\* C36 (balance conservation): a transfer between two existing accounts
\* that the sender's balance covers leaves the sum of all balances as it
\* was, and the sum changes in a call only by the initial balance of each
\* account the call adds.
C36_BalanceConservation ==
    \A i \in 1..Len(tick.calls) :
        /\ Covered(tick.calls[i]) =>
              Total(tick.calls[i].after) = Total(tick.calls[i].before)
        /\ Materialised(tick.calls[i].before, tick.calls[i].after)

\* The addresses of the accounts that hold code.
ContractAccounts == {a \in DOMAIN accounts : accounts[a].code_hash # None}

\* C37 (contract accounts correspond to receipts): every account that holds
\* code is at the contract_address of a stored receipt, that is, of a
\* deployment sealed in a block; a deployment that failed or was requeued
\* has left no contract account.
C37_ContractsHaveReceipts ==
    \A a \in ContractAccounts :
        \E h \in ContractReceipts : receipts[h].contract_address = Some(a)

\* The receipts map holds one receipt of the transaction, under its hash,
\* with the block number and the block hash set.
Receipted(tx) ==
    /\ tx.hash # None
    /\ tx.hash[1] \in DOMAIN receipts
    /\ \A h \in DOMAIN receipts :
          receipts[h].transaction_hash = tx.hash[1] <=> h = tx.hash[1]
    /\ receipts[tx.hash[1]].block_number # None
    /\ receipts[tx.hash[1]].block_hash # None

\* C40 (receipt completeness): after every completed tick each transaction
\* of each block a tick sealed has exactly one receipt in the receipts map,
\* keyed by its transaction hash, with block_number and block_hash set.
C40_ReceiptCompleteness ==
    \A n \in 2..Len(blocks) :
        \A k \in 1..Len(blocks[n].transactions) :
            Receipted(blocks[n].transactions[k])

\* A tick sealed a block with two transactions, a later tick sealed another
\* block, and an entry of the last tick got no receipt.
C40_Witness ==
    /\ \E n \in 2..(Len(blocks) - 1) : Len(blocks[n].transactions) >= 2
    /\ tick.kind = "sealed"
    /\ Errors(tick.calls) # {}

\* The mempool entry send_transaction queues for a request without a nonce
\* when the sender's stored nonce is n.
AutoFilled(request, n) ==
    enqueue(<<>>, TransactionRequest_try_into(request),
            [res |-> "Ok", v |-> [nonce |-> n]]).mempool[1]

\* The entry waits in the mempool and its sender exists and can pay it.
Waiting(entry) ==
    /\ entry \in RangeOf(mempool)
    /\ entry.from \in DOMAIN accounts
    /\ accounts[entry.from].balance >= entry.value

\* C38 (nonce auto-assignment liveness): under a fair ticker, every transfer
\* queued without a nonce by an existing sender that can pay it is
\* eventually in a sealed block, unless the ticker has died or the chain has
\* reached its bound.
C38_AutoNonceLiveness ==
    \A request \in {r \in QueueRequests : r.nonce = None /\ r.data = None} :
        \A n \in 0..MaxNonce :
            Waiting(AutoFilled(request, n))
                ~> \/ InBlocks(AutoFilled(request, n))
                   \/ ticker = "dead"
                   \/ Len(blocks) > MaxBlocks

\* Entry k of the mempool was drained by the last tick and put back by it.
Requeued(k) ==
    /\ tick.kind = "sealed"
    /\ mempool_ids[k] \in RangeOf(tick.drained_ids)

\* A tick drains a queue that is not empty and runs to its end.
CompletedTick == mempool # <<>> /\ ProcessTransactions /\ ticker' = "running"

\* The tick seals entry k of the queue it drains in its block.
IncludedByTick(k) ==
    /\ mempool_ids[k] \in RangeOf(block_ids'[Len(block_ids')])
    /\ mempool[k] \in RangeOf(blocks'[Len(blocks')].transactions)

\* An entry ahead of entry k in the queue is of the same sender and has the
\* same nonce.
Rival(k) ==
    \E j \in 1..(k - 1) :
        /\ mempool[j].from = mempool[k].from
        /\ mempool[j].nonce = mempool[k].nonce

\* The sender's stored nonce when the tick reaches entry k.
NonceAtTurn(k) == tick'.calls[k].before[mempool[k].from].nonce

\* C39 as stated (gapped transaction eventually included): a completed tick
\* seals every requeued entry whose predecessor nonces have all succeeded,
\* that is, whose sender's stored nonce has reached the entry's nonce - 1.
C39_PredecessorIncluded ==
    [][CompletedTick =>
          \A k \in 1..Len(mempool) :
              (/\ Requeued(k)
               /\ accounts[mempool[k].from].nonce >= mempool[k].nonce[1] - 1)
                  => IncludedByTick(k)]_vars

\* C39 (gapped transaction eventually included): in a completed tick a
\* requeued entry is put back again while the gap persists at its turn; it
\* is sealed by the tick that starts with its sender's stored nonce at the
\* entry's nonce - 1, unless an entry of the same sender with the same nonce
\* is ahead of it in the queue; and it is dropped when its nonce has been
\* used by the time the tick reaches it.
C39_GappedIncluded ==
    [][CompletedTick =>
          \A k \in 1..Len(mempool) :
              Requeued(k) =>
                  /\ NonceAtTurn(k) < mempool[k].nonce[1] - 1
                        => /\ tick'.calls[k].res = "NonceTooHigh"
                           /\ mempool_ids[k] \in RangeOf(mempool_ids')
                           /\ mempool[k] \in RangeOf(mempool')
                  /\ (/\ accounts[mempool[k].from].nonce = mempool[k].nonce[1] - 1
                      /\ ~Rival(k))
                        => IncludedByTick(k)
                  /\ NonceAtTurn(k) >= mempool[k].nonce[1]
                        => /\ mempool_ids[k] \notin RangeOf(mempool_ids')
                           /\ ~IncludedByTick(k)]_vars

\* The last block holds an entry submitted before its predecessor nonce,
\* which the block before it holds, and the tick that sealed it dropped
\* another entry.
C39_Witness ==
    /\ Len(blocks) >= 3
    /\ tick.kind = "sealed"
    /\ Errors(tick.calls) # {}
    /\ \E i \in 1..Len(blocks[Len(blocks)].transactions) :
          \E j \in 1..Len(blocks[Len(blocks) - 1].transactions) :
              /\ blocks[Len(blocks)].transactions[i].from =
                    blocks[Len(blocks) - 1].transactions[j].from
              /\ blocks[Len(blocks)].transactions[i].nonce[1] =
                    blocks[Len(blocks) - 1].transactions[j].nonce[1] + 1
              /\ block_ids[Len(blocks)][i] < block_ids[Len(blocks) - 1][j]

====
